---- MODULE Spec2Model ----
(***************************************************************************)
(* A model of src/slime.py: SlimeSimulation.construct, its nested          *)
(* functions update_agent, steer, sense, diffuse, evaporate_map and the    *)
(* main simulation loop.                                                   *)
(*                                                                         *)
(* Arithmetic is fixed point.  A position is an integer number of          *)
(* 1/CellUnits of a grid cell, a trail value an integer number of          *)
(* 1/maxTrail of the deposited value 1, an angle an integer number of      *)
(* 2*PI/HeadingSteps, a value of np.random.random() an integer number of   *)
(* 1/RScale.  IEEE rounding of the floats is not modelled.                 *)
(***************************************************************************)
EXTENDS Integers, Sequences, FiniteSets, TLC

VARIABLES agents, DrawMap, pc, i, step, decay, ops, tickMap, draws, last

vars == <<agents, DrawMap, pc, i, step, decay, ops, tickMap, draws, last>>

(***************************************************************************)
(* Units of the fixed-point representation.                                *)
(***************************************************************************)
\* position units per grid cell: one unit is 0.005, half the 0.01 of lines 51-52
CellUnits == 200
\* the 0.01 subtracted from width and height when clamping (lines 51-52)
eps == 2
\* the value 1 written by a deposit (line 56), in trail units
maxTrail == 100
\* 2 * PI in angle units (lines 53, 154)
HeadingSteps == 96
\* np.random.random() returns k / RScale for k in 0 .. RScale-1, a value of [0,1)
RScale == 4
RDraws == 0 .. (RScale - 1)
\* marks a draw that was not made
NoDraw == 0 - 1

(***************************************************************************)
(* The parameters of construct (lines 12-24).                              *)
(***************************************************************************)
\* moveSpeed = 10
moveSpeed == 10
\* deltaTime = 0.1, as its inverse
deltaTimeInv == 10
\* N = 1000 simulation steps in the source; the number of steps of the model
N == 2
\* width = 200 in the source; the width of the model's grid
width == 5
\* height = int(width * 16 / 9)
height == (width * 16) \div 9
\* nrAgents = 700 in the source; the number of agents of the model
nrAgents == 2
\* evaporateSpeed = 0.1, as its inverse
evaporateSpeedInv == 10
\* sensorOffsetDst = 5
sensorOffsetDst == 5
\* sensorSize = 4
sensorSize == 4
\* sensorAngleSpacing = 0.78 radians, 12 angle units (0.785)
sensorAngleSpacing == 12
\* turnSpeed = 2.5 radians per unit of time, 40 angle units (2.6)
turnSpeed == 40
\* the taps gaussian_filter uses for sigma = diffuseFaktor = 0.4: radius
\* int(4 * 0.4 + 0.5) = 2, weights exp(-x^2 / (2 * 0.16)) normalised, times 10^6
gaussKernel == <<3, 40388, 919218, 40388, 3>>
\* the kernel left unnormalised: the sum taken for the centre weight alone
gaussSum_centreOnly == gaussKernel[3]
\* the sum of the weights, by which gaussian_filter normalises them
gaussSum == gaussKernel[1] + gaussKernel[2] + gaussKernel[3] + gaussKernel[4] + gaussKernel[5]

W == width * CellUnits
H == height * CellUnits
Grid == (0 .. (width - 1)) \X (0 .. (height - 1))

Min(a, b) == IF a < b THEN a ELSE b
Max(a, b) == IF a > b THEN a ELSE b

(***************************************************************************)
(* np.cos and np.sin, times CellUnits, at the angles k * 2*PI/HeadingSteps. *)
(***************************************************************************)
cosTab ==
  << 200,  200,  198,  196,  193,  189,  185,  179,  173,  166,  159,  150,
     141,  132,  122,  111,  100,   88,   77,   64,   52,   39,   26,   13,
       0,  -13,  -26,  -39,  -52,  -64,  -77,  -88, -100, -111, -122, -132,
    -141, -150, -159, -166, -173, -179, -185, -189, -193, -196, -198, -200,
    -200, -200, -198, -196, -193, -189, -185, -179, -173, -166, -159, -150,
    -141, -132, -122, -111, -100,  -88,  -77,  -64,  -52,  -39,  -26,  -13,
       0,   13,   26,   39,   52,   64,   77,   88,  100,  111,  122,  132,
     141,  150,  159,  166,  173,  179,  185,  189,  193,  196,  198,  200 >>

npcos(a) == cosTab[(a % HeadingSteps) + 1]
\* sin(a) = cos(a - PI/2)
npsin(a) == cosTab[((a - (HeadingSteps \div 4)) % HeadingSteps) + 1]

\* int(v) and astype(int): truncation toward zero, to a cell index
trunc(v) == IF v >= 0 THEN v \div CellUnits ELSE 0 - ((0 - v) \div CellUnits)

\* np.random.random() * 2 * PI (lines 53, 154)
headingOf(r) == (r * HeadingSteps) \div RScale

(***************************************************************************)
(* numpy indexing of DrawMap[a, b]: a negative index counts from the end,  *)
(* an index outside [-size, size) raises IndexError (no cell).             *)
(***************************************************************************)
ndIndex(p) ==
  <<IF p[1] < 0 THEN p[1] + width ELSE p[1],
    IF p[2] < 0 THEN p[2] + height ELSE p[2]>>

indexError(p) == ndIndex(p) \notin Grid

cellValue(M, p) == IF indexError(p) THEN 0 ELSE M[ndIndex(p)]

(***************************************************************************)
(* sense (lines 81-107).                                                   *)
(***************************************************************************)
\* np.clip(v, lo, hi)
npclip(v, lo, hi) == Min(hi, Max(lo, v))

\* lines 91-96: the sensor's centre cell
sensorCenter(agent, sensorAngleOffset) ==
  LET sensorAngle == agent.angle + sensorAngleOffset
  IN  <<trunc(npclip(agent.x + npcos(sensorAngle) * sensorOffsetDst, 0, (width - 1) * CellUnits)),
        trunc(npclip(agent.y + npsin(sensorAngle) * sensorOffsetDst, 0, (height - 1) * CellUnits))>>

\* lines 99-101: the cells of the window around a centre
sensorWindow(c) ==
  {<<c[1] + offsetX, c[2] + offsetY>> :
      offsetX \in (0 - sensorSize) .. sensorSize, offsetY \in (0 - sensorSize) .. sensorSize}

\* the read without its guard
inBounds_unguarded(p) == TRUE

\* line 104: the guard of the read
inBounds(p) == 0 <= p[1] /\ p[1] < width /\ 0 <= p[2] /\ p[2] < height

\* lines 99-105: the double loop over the window, cell number k onward; a cell
\* outside the grid adds nothing
RECURSIVE sumWindow(_, _, _)
sumWindow(M, c, k) ==
  IF k >= (2 * sensorSize + 1) * (2 * sensorSize + 1) THEN 0
  ELSE LET pos == <<c[1] + (k \div (2 * sensorSize + 1)) - sensorSize,
                    c[2] + (k % (2 * sensorSize + 1)) - sensorSize>>
       IN  (IF inBounds(pos) THEN cellValue(M, pos) ELSE 0) + sumWindow(M, c, k + 1)

\* the value sense returns (total), with the centre it used and the cells it read
sense(agent, sensorAngleOffset, M) ==
  LET c == sensorCenter(agent, sensorAngleOffset)
  IN  [total |-> sumWindow(M, c, 0),
       center |-> c,
       reads |-> {p \in sensorWindow(c) : inBounds(p)}]

(***************************************************************************)
(* steer (lines 109-129).                                                  *)
(***************************************************************************)
\* steerDelta turning toward the weaker side
steerDelta_swapped(weightForward, weightLeft, weightRight, r) ==
  IF weightForward > weightLeft /\ weightForward > weightRight
    THEN 0
  ELSE IF weightForward < weightLeft /\ weightForward < weightRight
    THEN ((2 * r - RScale) * turnSpeed) \div (RScale * deltaTimeInv)
  ELSE IF weightRight > weightLeft
    THEN (r * turnSpeed) \div (RScale * deltaTimeInv)
  ELSE IF weightLeft > weightRight
    THEN 0 - ((r * turnSpeed) \div (RScale * deltaTimeInv))
  ELSE 0

\* lines 122-129: the change of angle, randomSteerStrength = r / RScale
steerDelta(weightForward, weightLeft, weightRight, r) ==
  IF weightForward > weightLeft /\ weightForward > weightRight
    THEN 0
  ELSE IF weightForward < weightLeft /\ weightForward < weightRight
    THEN ((2 * r - RScale) * turnSpeed) \div (RScale * deltaTimeInv)
  ELSE IF weightRight > weightLeft
    THEN 0 - ((r * turnSpeed) \div (RScale * deltaTimeInv))
  ELSE IF weightLeft > weightRight
    THEN (r * turnSpeed) \div (RScale * deltaTimeInv)
  ELSE 0

\* lines 115-117: the three calls of sense
senseAll(agent, M) ==
  <<sense(agent, 0, M), sense(agent, sensorAngleSpacing, M), sense(agent, 0 - sensorAngleSpacing, M)>>

\* steer, lines 119-129: the agent it leaves, given the results of its three
\* calls of sense and the draw r of line 119
steer(agent, sensed, r) ==
  [agent EXCEPT !.angle =
     agent.angle + steerDelta(sensed[1].total, sensed[2].total, sensed[3].total, r)]

(***************************************************************************)
(* update_agent (lines 40-57).                                             *)
(***************************************************************************)
\* clampPos without the 0.01: an agent is put on the border itself
clampPos_onBorder(v, limit) == Min(limit, Max(0, v))

\* lines 51-52: min(limit - 0.01, max(0, v))
clampPos(v, limit) == Min(limit - eps, Max(0, v))

\* line 50
outOfBounds(x, y) == x < 0 \/ x >= W \/ y < 0 \/ y >= H

\* deposit that adds to the cell instead of overwriting it
deposit_additive(M, c) == IF indexError(c) THEN M ELSE [M EXCEPT ![ndIndex(c)] = @ + maxTrail]

\* line 56: DrawMap[int(newPos[0]), int(newPos[1])] = 1
deposit(M, c) == IF indexError(c) THEN M ELSE [M EXCEPT ![ndIndex(c)] = maxTrail]

\* drawsOf with the steering draw made before the collision is handled
drawsOf_steerFirst(bounced) == IF bounced THEN <<"steer", "boundary">> ELSE <<"steer">>

\* the random draws a call of update_agent consumes, in order (lines 53, 119)
drawsOf(bounced) == IF bounced THEN <<"boundary", "steer">> ELSE <<"steer">>

\* move that clamps on a collision and keeps the angle
move_keepAngle(agent, b) ==
  LET tx == agent.x + (npcos(agent.angle) * moveSpeed) \div deltaTimeInv
      ty == agent.y + (npsin(agent.angle) * moveSpeed) \div deltaTimeInv
      bounced == tx < 0 \/ tx >= W \/ ty < 0 \/ ty >= H
  IN  [tx |-> tx, ty |-> ty, bounced |-> bounced,
       x |-> IF bounced THEN Min(W - eps, Max(0, tx)) ELSE tx,
       y |-> IF bounced THEN Min(H - eps, Max(0, ty)) ELSE ty,
       angle |-> agent.angle]

\* lines 46-55: the move, b the draw of line 53
move(agent, b) ==
  LET tx == agent.x + (npcos(agent.angle) * moveSpeed) \div deltaTimeInv
      ty == agent.y + (npsin(agent.angle) * moveSpeed) \div deltaTimeInv
      bounced == outOfBounds(tx, ty)
  IN  [tx |-> tx, ty |-> ty, bounced |-> bounced,
       x |-> IF bounced THEN clampPos(tx, W) ELSE tx,
       y |-> IF bounced THEN clampPos(ty, H) ELSE ty,
       angle |-> IF bounced THEN headingOf(b) ELSE agent.angle]

\* line 55: the agent after the move m
movedAgent(m) == [x |-> m.x, y |-> m.y, angle |-> m.angle]

\* line 56: the cell of the deposit
cellOf(a) == <<trunc(a.x), trunc(a.y)>>

\* lines 56-57 after the move m: the deposit, then steer with the draw s of line
\* 119 on the three results of sense; an IndexError at line 56 ends the call.
\* The agent and the map the call leaves, and a trace of what it did
finish(agent, M, m, sensed, b, s) ==
  LET moved == movedAgent(m)
      cell == cellOf(moved)
      reads == sensed[1].reads \cup sensed[2].reads \cup sensed[3].reads
  IN  [agent |-> IF indexError(cell) THEN moved ELSE steer(moved, sensed, s),
       map |-> deposit(M, cell),
       fault |-> indexError(cell) \/ \E p \in reads : indexError(p),
       trace |-> [i |-> 0, tx |-> m.tx, ty |-> m.ty, bounced |-> m.bounced,
                  bdraw |-> IF m.bounced THEN b ELSE NoDraw,
                  sdraw |-> IF indexError(cell) THEN NoDraw ELSE s,
                  angle0 |-> agent.angle, pre |-> m.angle, px |-> m.x, py |-> m.y,
                  cell |-> cell,
                  w |-> IF indexError(cell) THEN <<0, 0, 0>>
                        ELSE <<sensed[1].total, sensed[2].total, sensed[3].total>>,
                  centers |-> IF indexError(cell) THEN <<>>
                              ELSE <<sensed[1].center, sensed[2].center, sensed[3].center>>,
                  reads |-> IF indexError(cell) THEN {} ELSE reads]]

(***************************************************************************)
(* diffuse (lines 69-79): gaussian_filter, one pass along each axis, the   *)
(* border extended by reflection (scipy's default mode).                   *)
(***************************************************************************)
reflect(k, n) == IF k < 0 THEN (0 - k) - 1 ELSE IF k >= n THEN (2 * n - 1) - k ELSE k

roundDiv(s, d) == (2 * s + d) \div (2 * d)

blurX(M) ==
  [p \in Grid |->
     roundDiv(gaussKernel[1] * M[<<reflect(p[1] - 2, width), p[2]>>]
            + gaussKernel[2] * M[<<reflect(p[1] - 1, width), p[2]>>]
            + gaussKernel[3] * M[p]
            + gaussKernel[4] * M[<<reflect(p[1] + 1, width), p[2]>>]
            + gaussKernel[5] * M[<<reflect(p[1] + 2, width), p[2]>>], gaussSum)]

blurY(M) ==
  [p \in Grid |->
     roundDiv(gaussKernel[1] * M[<<p[1], reflect(p[2] - 2, height)>>]
            + gaussKernel[2] * M[<<p[1], reflect(p[2] - 1, height)>>]
            + gaussKernel[3] * M[p]
            + gaussKernel[4] * M[<<p[1], reflect(p[2] + 1, height)>>]
            + gaussKernel[5] * M[<<p[1], reflect(p[2] + 2, height)>>], gaussSum)]

diffuse(M) == blurY(blurX(M))

\* evaporate_map without the max(0, .)
evaporate_map_unclamped(M, d) == [p \in Grid |-> M[p] - d]

(***************************************************************************)
(* evaporate_map (lines 59-67); d is evaporateSpeed * deltaTime.           *)
(***************************************************************************)
evaporate_map(M, d) == [p \in Grid |-> Max(0, M[p] - d)]

\* evaporateSpeed * deltaTime in trail units
evaporatePerStep == maxTrail \div (evaporateSpeedInv * deltaTimeInv)

(***************************************************************************)
(* The main simulation loop (lines 163-167).                               *)
(***************************************************************************)
\* the loop with diffuse and evaporate_map inside the loop over the agents
afterAgent_inner(k, n) == [pc |-> "diffuse", i |-> k + 1]

\* where the loop is after update_agent of agent k of n
afterAgent(k, n) ==
  IF k < n THEN [pc |-> "agents", i |-> k + 1] ELSE [pc |-> "diffuse", i |-> 1]

\* where a step starts: the inner loop is empty when there is no agent
startOfStep(n) == IF n = 0 THEN "diffuse" ELSE "agents"

\* where the loop is after evaporate_map of step number k
afterEvaporate(k, n) == IF k < N THEN startOfStep(n) ELSE "done"

ZeroMap == [p \in Grid |-> 0]

NoUpdate ==
  [i |-> 0, tx |-> 0, ty |-> 0, bounced |-> FALSE, bdraw |-> NoDraw, sdraw |-> NoDraw,
   angle0 |-> 0, pre |-> 0, px |-> 0, py |-> 0, cell |-> <<0, 0>>, w |-> <<0, 0, 0>>,
   centers |-> <<>>, reads |-> {}]

\* the operations of the step under way (empty again once a step is complete)
curOps == IF ops # <<>> /\ ops[Len(ops)].op = "evaporate" THEN <<>> ELSE ops

\* lines 153-154: the draws of the initialization, per agent in order
RECURSIVE initDraws(_)
initDraws(n) == IF n = 0 THEN <<>> ELSE initDraws(n - 1) \o <<"x", "y", "angle">>

\* positions and angles np.random.random() can give an agent at line 153
InitAgents ==
  << [x |-> W - 10, y |-> H \div 2, angle |-> 0],
     [x |-> W - 10, y |-> H - 1, angle |-> 0],
     [x |-> 500, y |-> 900, angle |-> 12],
     [x |-> 450, y |-> 1010, angle |-> 0],
     [x |-> 50, y |-> 30, angle |-> 54],
     [x |-> 610, y |-> H - 1, angle |-> 90] >>

\* the pools of n agents the model starts from: n times the same agent, or n
\* agents in a row of InitAgents
InitPools(n) ==
  {[k \in 1 .. n |-> InitAgents[((c + j * (k - 1)) % Len(InitAgents)) + 1]] :
      c \in 0 .. (Len(InitAgents) - 1), j \in 0 .. 1}

InitWith(n) ==
  /\ agents \in InitPools(n)
  /\ DrawMap = ZeroMap
  /\ pc = afterEvaporate(0, n)
  /\ i = 1
  /\ step = 0
  /\ decay = evaporatePerStep
  /\ ops = <<>>
  /\ tickMap = ZeroMap
  /\ draws = initDraws(n)
  /\ last = NoUpdate

Init == InitWith(nrAgents)

\* update_agent(agents[i]) (lines 40-57), b the draw of line 53 (made only on a
\* collision), s the draw of line 119
UpdateAgent ==
  /\ pc = "agents"
  /\ \E b \in (IF move(agents[i], 0).bounced THEN RDraws ELSE {NoDraw}) :
     \E m \in {move(agents[i], b)} :
     \E sensed \in {senseAll(movedAgent(m), deposit(DrawMap, cellOf(movedAgent(m))))} :
     \E s \in RDraws :
     \E u \in {finish(agents[i], DrawMap, m, sensed, b, s)} :
       LET nxt == afterAgent(i, Len(agents))
       IN  /\ agents' = [agents EXCEPT ![i] = u.agent]
           /\ DrawMap' = u.map
           /\ pc' = IF u.fault THEN "IndexError" ELSE nxt.pc
           /\ i' = IF u.fault THEN i ELSE nxt.i
           /\ last' = [u.trace EXCEPT !.i = i]
           /\ draws' = draws \o drawsOf(u.trace.bounced)
           /\ ops' = curOps \o <<[op |-> "deposit", agent |-> i], [op |-> "sense", agent |-> i],
                                 [op |-> "sense", agent |-> i], [op |-> "sense", agent |-> i]>>
           /\ tickMap' = IF curOps = <<>> THEN DrawMap ELSE tickMap
  /\ UNCHANGED <<step, decay>>

Diffuse ==
  /\ pc = "diffuse"
  /\ DrawMap' = diffuse(DrawMap)
  /\ pc' = "evaporate"
  /\ ops' = Append(curOps, [op |-> "diffuse", agent |-> 0])
  /\ tickMap' = IF curOps = <<>> THEN DrawMap ELSE tickMap
  /\ UNCHANGED <<agents, i, step, decay, draws, last>>

Evaporate ==
  /\ pc = "evaporate"
  /\ DrawMap' = evaporate_map(DrawMap, decay)
  /\ step' = step + 1
  /\ pc' = afterEvaporate(step + 1, Len(agents))
  /\ i' = 1
  /\ ops' = Append(ops, [op |-> "evaporate", agent |-> 0])
  /\ UNCHANGED <<agents, decay, tickMap, draws, last>>

Next == UpdateAgent \/ Diffuse \/ Evaporate

Spec == Init /\ [][Next]_vars

(***************************************************************************)
(* evaporate_map alone: no agent, no diffusion, one cell at the deposited  *)
(* value, any of several evaporateSpeed * deltaTime.                       *)
(***************************************************************************)
\* the number of calls of evaporate_map the model makes
MaxCalls == 104
\* values of evaporateSpeed * deltaTime, in trail units
DecayChoices == {1, 3, 7, 30, 100, 150}

InitEvap ==
  /\ agents = <<>>
  /\ \E h \in Grid : DrawMap = [ZeroMap EXCEPT ![h] = maxTrail]
  /\ tickMap = DrawMap
  /\ pc = "evaporate"
  /\ i = 1
  /\ step = 0
  /\ decay \in DecayChoices
  /\ ops = <<>>
  /\ draws = <<>>
  /\ last = NoUpdate

EvaporateOnly ==
  /\ pc = "evaporate"
  /\ step < MaxCalls
  /\ DrawMap' = evaporate_map(DrawMap, decay)
  /\ step' = step + 1
  /\ UNCHANGED <<agents, pc, i, decay, ops, tickMap, draws, last>>

SpecEvap == InitEvap /\ [][EvaporateOnly]_vars

(***************************************************************************)
(* construct with any number of agents from none to nrAgents: the source   *)
(* checks no parameter before it starts.                                   *)
(***************************************************************************)
InitCfg == \E n \in 0 .. nrAgents : InitWith(n)

SpecCfg == InitCfg /\ [][Next]_vars

(***************************************************************************)
(* The properties.                                                         *)
(***************************************************************************)
updated == last.i # 0
f_ == last.w[1]
l_ == last.w[2]
r_ == last.w[3]

\* C1: in every reachable state, after the initialization and after every
\* update_agent, every agent's position satisfies 0 <= x < width and
\* 0 <= y < height.
BoundsInvariant ==
  \A k \in 1 .. Len(agents) :
    /\ 0 <= agents[k].x /\ agents[k].x < width * CellUnits
    /\ 0 <= agents[k].y /\ agents[k].y < height * CellUnits

\* an agent that left the grid on the high side has been clamped
BoundsWitness ==
  /\ updated /\ last.bounced /\ last.tx >= W
  /\ agents[last.i].x = W - eps

\* the operations of a step of n agents, in order
RECURSIVE agentOps(_)
agentOps(n) ==
  IF n = 0 THEN <<>>
  ELSE agentOps(n - 1) \o <<[op |-> "deposit", agent |-> n], [op |-> "sense", agent |-> n],
                            [op |-> "sense", agent |-> n], [op |-> "sense", agent |-> n]>>

expectedOps(n) == agentOps(n) \o <<[op |-> "diffuse", agent |-> 0], [op |-> "evaporate", agent |-> 0]>>

\* M with the cells of the first k agents of ag set to the deposited value
RECURSIVE overwritten(_, _, _)
overwritten(M, ag, k) ==
  IF k = 0 THEN M
  ELSE [overwritten(M, ag, k - 1) EXCEPT ![<<ag[k].x \div CellUnits, ag[k].y \div CellUnits>>] = maxTrail]

\* C2: in every step the operations on the map occur in this order: for each
\* agent in pool order its deposit then its three sense reads, and only after
\* the last agent one diffuse then one evaporate; the map agent k senses is the
\* map the previous step left with the deposits of agents 1..k of this step
\* and nothing else.
TickOrdering ==
  /\ Len(ops) <= Len(expectedOps(Len(agents)))
  /\ ops = SubSeq(expectedOps(Len(agents)), 1, Len(ops))
  /\ (ops # <<>> /\ ops[Len(ops)].op = "sense")
       => DrawMap = overwritten(tickMap, agents, ops[Len(ops)].agent)
  /\ (ops = <<>> \/ ops[Len(ops)].op = "evaporate") => pc \in {"agents", "diffuse", "done"}

\* the second agent has sensed in the second step, on a map the first step left
TickOrderingWitness ==
  /\ step = 1 /\ Len(ops) = 8 /\ last.i = 2
  /\ tickMap # ZeroMap
  /\ DrawMap # tickMap

BoundaryReheading ==
  updated =>
    LET a == agents[last.i]
        fresh == (last.bdraw * HeadingSteps) \div RScale
        turn == steerDelta(f_, l_, r_, last.sdraw)
    IN  /\ (last.tx >= W /\ 0 <= last.ty /\ last.ty < H)
          => /\ a.x = W - eps
             /\ a.y = (IF last.ty > H - eps THEN H - eps ELSE last.ty)
             /\ last.bdraw \in RDraws
             /\ 0 <= fresh /\ fresh < HeadingSteps
             /\ a.angle = fresh + turn
        /\ (0 <= last.tx /\ last.tx < W /\ 0 <= last.ty /\ last.ty < H)
          => /\ a.x = last.tx /\ a.y = last.ty
             /\ last.bdraw = NoDraw
             /\ a.angle = last.angle0 + turn

\* an agent crossed the high x border with its y inside and steer turned it
BoundaryReheadingWitness ==
  /\ updated /\ last.tx >= W /\ 0 <= last.ty /\ last.ty < H
  /\ last.bdraw \in RDraws
  /\ agents[last.i].angle # (last.bdraw * HeadingSteps) \div RScale

\* C4 as stated: ... position.y equals the tentative y unchanged and the angle
\* is the freshly drawn value.
BoundaryReheadingAsStated ==
  (updated /\ last.tx >= W /\ 0 <= last.ty /\ last.ty < H)
    => /\ agents[last.i].x = W - eps
       /\ agents[last.i].y = last.ty
       /\ agents[last.i].angle = (last.bdraw * HeadingSteps) \div RScale

\* C5: a call of update_agent leaves the cell of the agent's final position
\* (its coordinates truncated) at exactly the deposited value 1 whatever it
\* held, and changes no other cell; at the end of the agent phase the cell of
\* every agent holds exactly 1, also when several agents share it.
DepositOverwrite ==
  /\ [][pc = "agents" =>
          DrawMap' = [DrawMap EXCEPT
                        ![<<agents'[i].x \div CellUnits, agents'[i].y \div CellUnits>>] = maxTrail]]_vars
  /\ [](pc = "diffuse" =>
          \A k \in 1 .. Len(agents) :
            DrawMap[<<agents[k].x \div CellUnits, agents[k].y \div CellUnits>>] = maxTrail)

\* two agents ended the agent phase on one cell, which held a trail before
DepositOverwriteWitness ==
  /\ pc = "diffuse" /\ Len(agents) >= 2
  /\ cellOf(agents[1]) = cellOf(agents[2])
  /\ tickMap[cellOf(agents[1])] > 0 /\ tickMap[cellOf(agents[1])] < maxTrail
  /\ DrawMap[cellOf(agents[1])] = maxTrail

\* the largest value of M in the neighbourhood the filter reads for cell p
nbhd(p) == {<<reflect(p[1] + dx, width), reflect(p[2] + dy, height)>> : dx \in -2 .. 2, dy \in -2 .. 2}
maxNbhd(M, p) == CHOOSE v \in {M[q] : q \in nbhd(p)} : \A q \in nbhd(p) : M[q] <= v

\* C6: every cell value v satisfies 0 <= v <= 1 in every reachable state;
\* diffuse never raises a cell above the largest value of its neighbourhood
\* before the call; evaporate sets each cell to max(0, v - rate*dt), never
\* above v and never below 0.
GridValueRange ==
  /\ [](\A p \in Grid : 0 <= DrawMap[p] /\ DrawMap[p] <= maxTrail)
  /\ [][pc = "diffuse" => \A p \in Grid : DrawMap'[p] <= maxNbhd(DrawMap, p)]_vars
  /\ [][pc = "evaporate" =>
          \A p \in Grid :
            /\ DrawMap'[p] = (IF DrawMap[p] > decay THEN DrawMap[p] - decay ELSE 0)
            /\ DrawMap'[p] <= DrawMap[p] /\ DrawMap'[p] >= 0]_vars

\* diffuse has spread a deposit to a neighbouring cell
GridValueRangeWitness ==
  /\ pc = "evaporate"
  /\ \E p \in Grid : DrawMap[p] > 0 /\ DrawMap[p] < maxTrail /\ tickMap[p] = 0
  /\ \E p \in Grid : DrawMap[p] > decay

\* ceil(1 / (e * dt)), e * dt being decay / maxTrail
callsNeeded == (maxTrail + decay - 1) \div decay

\* C7: with no agent and no diffusion, from a grid with one cell at 1 and the
\* others at 0, repeated evaporate calls bring that cell to exactly 0 after
\* ceil(1/(e*dt)) calls; it is positive before that, never negative, stays 0
\* afterwards, and the other cells stay 0.
DecayConvergence ==
  \A p \in Grid :
    /\ DrawMap[p] >= 0
    /\ (tickMap[p] = 0) => DrawMap[p] = 0
    /\ (tickMap[p] = maxTrail /\ step >= callsNeeded) => DrawMap[p] = 0
    /\ (tickMap[p] = maxTrail /\ step < callsNeeded) => DrawMap[p] > 0

\* the cell reached 0 at the call ceil(1/(e*dt)), which 1/(e*dt) does not equal
DecayConvergenceWitness ==
  /\ agents = <<>> /\ step = callsNeeded /\ callsNeeded * decay > maxTrail
  /\ callsNeeded > 1
  /\ \E p \in Grid : tickMap[p] = maxTrail /\ DrawMap[p] = 0

\* the draws of the calls of update_agent: each call draws for the boundary
\* only on a collision, and then for steer
RECURSIVE updateDraws(_)
updateDraws(s) ==
  IF s = <<>> THEN 0
  ELSE IF s[1] = "steer" THEN (IF updateDraws(Tail(s)) < 0 THEN 0 - 1 ELSE 1 + updateDraws(Tail(s)))
  ELSE IF s[1] = "boundary" /\ Len(s) >= 2 /\ s[2] = "steer"
    THEN (IF updateDraws(Tail(Tail(s))) < 0 THEN 0 - 1 ELSE 1 + updateDraws(Tail(Tail(s))))
  ELSE 0 - 1

updatesDone ==
  step * Len(agents)
    + (IF pc = "agents" THEN i - 1 ELSE IF pc \in {"diffuse", "evaporate"} THEN Len(agents) ELSE 0)

RECURSIVE windowSum(_, _, _)
windowSum(M, c, k) ==
  IF k >= width * height THEN 0
  ELSE LET p == <<k \div height, k % height>>
           dx == p[1] - c[1]
           dy == p[2] - c[2]
       IN  (IF dx <= sensorSize /\ 0 - dx <= sensorSize /\ dy <= sensorSize /\ 0 - dy <= sensorSize
              THEN M[p] ELSE 0) + windowSum(M, c, k + 1)

\* C9: every index deposit writes and every index sense reads lies in
\* [0, width) x [0, height); the sensor's centre is clamped into [0, width-1] x
\* [0, height-1]; a window cell outside the grid is skipped, adding nothing to
\* the sum; no call fails.
NoOutOfBoundsAccess ==
  /\ pc # "IndexError"
  /\ updated =>
       /\ last.cell \in Grid
       /\ last.reads \subseteq Grid
       /\ Len(last.centers) = 3
       /\ \A k \in 1 .. 3 :
            /\ last.centers[k] \in Grid
            /\ sensorWindow(last.centers[k]) \cap Grid \subseteq last.reads
            /\ (ops # <<>> /\ ops[Len(ops)].op = "sense")
                 => last.w[k] = windowSum(DrawMap, last.centers[k], 0)
       /\ last.reads \subseteq UNION {sensorWindow(last.centers[k]) : k \in 1 .. 3}

\* a sensor that pointed out of the grid was clamped to the last column and read
\* a trail through a window that overlaps the outside
NoOutOfBoundsWitness ==
  /\ updated /\ ops # <<>> /\ ops[Len(ops)].op = "sense"
  /\ last.px + npcos(last.pre) * sensorOffsetDst > (width - 1) * CellUnits
  /\ last.centers[1][1] = width - 1
  /\ sensorWindow(last.centers[1]) \ Grid # {}
  /\ last.w[1] > 0

\* C10: the initialization fails with InvalidConfiguration when the agent count
\* is <= 0; no agent is created and no step is executed.
ConfigurationRejection ==
  (Len(agents) <= 0) => (pc = "InvalidConfiguration" /\ step = 0)

====
